---- MODULE Spec2Model ----
(***************************************************************************)
(* Verification-request lifecycle (concept Verifying) and the routes that  *)
(* synchronise it with sessions and the administrator predicate.           *)
(*                                                                         *)
(* Spec      : every module operation / route runs as one non-overlapping  *)
(*             unit against the record collection.                         *)
(* SpecAsync : module operations are async functions; every awaited store  *)
(*             call is one atomic step and calls of different invocations  *)
(*             interleave at the awaits.                                   *)
(***************************************************************************)
EXTENDS Integers, Naturals, Sequences, FiniteSets, TLC

VARIABLES
    requests,   \* the verificationRequests collection, in insertion order
    nextId,     \* the next _id the store assigns in createOne
    last,       \* the last completed call: its arguments and its outcome
    submitted,  \* history: usernames with a successful create and no later delete call
    calls       \* SpecAsync: the invocations in flight, one per process

vars == <<requests, nextId, last, submitted, calls>>

----------------------------------------------------------------------------
(* Bounds and input domains *)

NumUsers == 2
MaxId == 2
NumProcs == 2

AllNames == <<"alice", "bob", "carol", "dave">>

UserIds == 1..NumUsers
Usernames == {AllNames[i] : i \in UserIds}
UsernameArgs == Usernames \cup {""}
CredentialArgs == {"", "doc123"}
AsyncCredentialArgs == {"", "doc123", "doc456"}
ReasonArgs == {"", "bad doc"}
Procs == 1..NumProcs

Statuses == {"pending", "approved", "rejected"}

----------------------------------------------------------------------------
(* The record store: DocCollection over one collection *)

null == [_id |-> 0, username |-> "", credentials |-> "", status |-> "null"]

Matches(doc, filter) == \A k \in DOMAIN filter : doc[k] = filter[k]

FirstMatch(coll, filter) ==
    LET hits == {i \in 1..Len(coll) : Matches(coll[i], filter)}
    IN  IF hits = {} THEN 0 ELSE CHOOSE i \in hits : \A j \in hits : i <= j

readOne(coll, filter) ==
    LET i == FirstMatch(coll, filter)
    IN  IF i = 0 THEN null ELSE coll[i]

createOne(coll, id, item) ==
    Append(coll, [_id |-> id, username |-> item.username,
                  credentials |-> item.credentials, status |-> item.status])

partialUpdateOne(coll, filter, status) ==
    LET i == FirstMatch(coll, filter)
    IN  IF i = 0 THEN coll ELSE [coll EXCEPT ![i].status = status]

deleteOne(coll, filter) ==
    LET i == FirstMatch(coll, filter)
    IN  IF i = 0 THEN coll
        ELSE SubSeq(coll, 1, i - 1) \o SubSeq(coll, i + 1, Len(coll))

----------------------------------------------------------------------------
(* VerifyingConcept: each operation run as one unit.  An operation yields  *)
(* the collection it leaves, err ("ok" or the error thrown) and, for       *)
(* reads, the request returned.                                            *)

assertValidRequest_NoExistenceCheck(coll, username, credentials) ==
    IF username = "" \/ credentials = "" THEN "BadValuesError" ELSE "ok"

assertValidRequest_PendingOnly(coll, username, credentials) ==
    IF username = "" \/ credentials = "" THEN "BadValuesError"
    ELSE IF readOne(coll, [username |-> username, status |-> "pending"]) # null
         THEN "NotAllowedError"
         ELSE "ok"

assertValidRequest_ExistenceFirst(coll, username, credentials) ==
    IF readOne(coll, [username |-> username]) # null THEN "NotAllowedError"
    ELSE IF username = "" \/ credentials = "" THEN "BadValuesError"
         ELSE "ok"

assertValidRequest(coll, username, credentials) ==
    IF username = "" \/ credentials = "" THEN "BadValuesError"
    ELSE IF readOne(coll, [username |-> username]) # null THEN "NotAllowedError"
         ELSE "ok"

createVerificationRequest(coll, id, username, credentials) ==
    LET err == assertValidRequest(coll, username, credentials)
        created == createOne(coll, id, [username |-> username,
                                        credentials |-> credentials,
                                        status |-> "pending"])
    IN  IF err # "ok"
        THEN [coll |-> coll, err |-> err, request |-> null]
        ELSE [coll |-> created, err |-> "ok",
              request |-> readOne(created, [username |-> username])]

getRequestByUser(coll, username) ==
    LET request == readOne(coll, [username |-> username])
    IN  IF request = null
        THEN [coll |-> coll, err |-> "NotFoundError", request |-> null]
        ELSE [coll |-> coll, err |-> "ok", request |-> request]

approveRequest_NoUpdate(coll, username) ==
    IF readOne(coll, [username |-> username]) = null
    THEN [coll |-> coll, err |-> "NotFoundError", request |-> null]
    ELSE [coll |-> coll, err |-> "ok", request |-> null]

approveRequest_AnyPending(coll, username) ==
    IF readOne(coll, [username |-> username]) = null
    THEN [coll |-> coll, err |-> "NotFoundError", request |-> null]
    ELSE [coll |-> partialUpdateOne(coll, [status |-> "pending"], "approved"),
          err |-> "ok", request |-> null]

approveRequest(coll, username) ==
    IF readOne(coll, [username |-> username]) = null
    THEN [coll |-> coll, err |-> "NotFoundError", request |-> null]
    ELSE [coll |-> partialUpdateOne(coll, [username |-> username], "approved"),
          err |-> "ok", request |-> null]

rejectRequest_NoReason(coll, username, reason) ==
    IF readOne(coll, [username |-> username]) = null
    THEN [coll |-> coll, err |-> "NotFoundError", request |-> null, msg |-> <<>>]
    ELSE [coll |-> partialUpdateOne(coll, [username |-> username], "rejected"),
          err |-> "ok", request |-> null,
          msg |-> <<"Verification request rejected. ">>]

rejectRequest_Reopens(coll, username, reason) ==
    IF readOne(coll, [username |-> username]) = null
    THEN [coll |-> coll, err |-> "NotFoundError", request |-> null, msg |-> <<>>]
    ELSE [coll |-> partialUpdateOne(coll, [username |-> username], "pending"),
          err |-> "ok", request |-> null,
          msg |-> <<"Verification request rejected. ">>
                    \o (IF reason # "" THEN <<"Reason: ", reason>> ELSE <<>>)]

\* msg is the returned template string, as its parts in order
rejectRequest(coll, username, reason) ==
    IF readOne(coll, [username |-> username]) = null
    THEN [coll |-> coll, err |-> "NotFoundError", request |-> null, msg |-> <<>>]
    ELSE [coll |-> partialUpdateOne(coll, [username |-> username], "rejected"),
          err |-> "ok", request |-> null,
          msg |-> <<"Verification request rejected. ">>
                    \o (IF reason # "" THEN <<"Reason: ", reason>> ELSE <<>>)]

deleteRequest_FailsOnAbsent(coll, username) ==
    IF readOne(coll, [username |-> username]) = null
    THEN [coll |-> coll, err |-> "NotFoundError", request |-> null]
    ELSE [coll |-> deleteOne(coll, [username |-> username]),
          err |-> "ok", request |-> null]

deleteRequest_Pending(coll, username) ==
    [coll |-> deleteOne(coll, [username |-> username, status |-> "pending"]),
     err |-> "ok", request |-> null]

deleteRequest(coll, username) ==
    [coll |-> deleteOne(coll, [username |-> username]),
     err |-> "ok", request |-> null]

----------------------------------------------------------------------------
(* Collaborators of the routes: sessions and the administrator predicate *)

Sessions == {{}} \cup {{u} : u \in UserIds}

Admins == {1}

isLoggedIn(session) == session # {}

getUser(session) == CHOOSE u \in session : TRUE

isAdmin(user) == user \in Admins

idsToUsernames(ids) == [i \in 1..Len(ids) |-> AllNames[ids[i]]]

----------------------------------------------------------------------------
(* Routes.  moduleCalls lists the Verifying operations the action invoked, *)
(* in order; err is "ok", the error thrown, or "error" for an              *)
(* {error: ...} payload.                                                   *)

\* POST /verification/request
submitVerificationRequest(coll, id, session, credentials) ==
    LET username == idsToUsernames(<<getUser(session)>>)
        verificationRequest == createVerificationRequest(coll, id, username[1], credentials)
    IN  IF ~isLoggedIn(session)
        THEN [coll |-> coll, err |-> "UnauthenticatedError", moduleCalls |-> <<>>]
        ELSE IF credentials = ""
        THEN [coll |-> coll, err |-> "error", moduleCalls |-> <<>>]
        ELSE [coll |-> verificationRequest.coll, err |-> verificationRequest.err,
              moduleCalls |-> <<"createVerificationRequest">>]

\* GET /verification/status
getVerificationStatus(coll, session, username) ==
    LET request == getRequestByUser(coll, username)
    IN  IF request.err # "ok"
        THEN [coll |-> coll, err |-> request.err, status |-> "",
              moduleCalls |-> <<"getRequestByUser">>]
        ELSE IF request.request = null
        THEN [coll |-> coll, err |-> "ok", status |-> "No verification request found.",
              moduleCalls |-> <<"getRequestByUser">>]
        ELSE [coll |-> coll, err |-> "ok", status |-> request.request.status,
              moduleCalls |-> <<"getRequestByUser">>]

\* GET /verification/view
viewRequests(coll, session) ==
    LET username == idsToUsernames(<<getUser(session)>>)
        request == getRequestByUser(coll, username[1])
    IN  IF ~isLoggedIn(session)
        THEN [coll |-> coll, err |-> "UnauthenticatedError", moduleCalls |-> <<>>]
        ELSE [coll |-> coll, err |-> request.err,
              moduleCalls |-> <<"getRequestByUser">>]

approveVerificationRequest_GateAfter(coll, session, requester) ==
    LET verificationRequest == getRequestByUser(coll, requester)
        result == approveRequest(coll, requester)
    IN  IF verificationRequest.err # "ok"
        THEN [coll |-> coll, err |-> verificationRequest.err,
              moduleCalls |-> <<"getRequestByUser">>]
        ELSE IF ~isLoggedIn(session)
        THEN [coll |-> result.coll, err |-> "UnauthenticatedError",
              moduleCalls |-> <<"getRequestByUser", "approveRequest">>]
        ELSE IF ~isAdmin(getUser(session))
        THEN [coll |-> result.coll, err |-> "error",
              moduleCalls |-> <<"getRequestByUser", "approveRequest">>]
        ELSE [coll |-> result.coll, err |-> result.err,
              moduleCalls |-> <<"getRequestByUser", "approveRequest">>]

approveVerificationRequest_GateFirst(coll, session, requester) ==
    LET result == approveRequest(coll, requester)
    IN  IF ~isLoggedIn(session)
        THEN [coll |-> coll, err |-> "UnauthenticatedError", moduleCalls |-> <<>>]
        ELSE IF ~isAdmin(getUser(session))
        THEN [coll |-> coll, err |-> "error", moduleCalls |-> <<>>]
        ELSE [coll |-> result.coll, err |-> result.err,
              moduleCalls |-> <<"approveRequest">>]

approveVerificationRequest(coll, session, requester) ==
    LET verificationRequest == getRequestByUser(coll, requester)
        result == approveRequest(coll, requester)
    IN  IF verificationRequest.err # "ok"
        THEN [coll |-> coll, err |-> verificationRequest.err,
              moduleCalls |-> <<"getRequestByUser">>]
        ELSE IF ~isLoggedIn(session)
        THEN [coll |-> coll, err |-> "UnauthenticatedError",
              moduleCalls |-> <<"getRequestByUser">>]
        ELSE IF ~isAdmin(getUser(session))
        THEN [coll |-> coll, err |-> "error",
              moduleCalls |-> <<"getRequestByUser">>]
        ELSE [coll |-> result.coll, err |-> result.err,
              moduleCalls |-> <<"getRequestByUser", "approveRequest">>]

rejectVerificationRequest(coll, session, requester) ==
    LET verificationRequest == getRequestByUser(coll, requester)
        result == rejectRequest(coll, requester, "")
    IN  IF verificationRequest.err # "ok"
        THEN [coll |-> coll, err |-> verificationRequest.err,
              moduleCalls |-> <<"getRequestByUser">>]
        ELSE IF ~isLoggedIn(session)
        THEN [coll |-> coll, err |-> "UnauthenticatedError",
              moduleCalls |-> <<"getRequestByUser">>]
        ELSE IF ~isAdmin(getUser(session))
        THEN [coll |-> coll, err |-> "error",
              moduleCalls |-> <<"getRequestByUser">>]
        ELSE [coll |-> result.coll, err |-> result.err,
              moduleCalls |-> <<"getRequestByUser", "rejectRequest">>]

----------------------------------------------------------------------------
(* State machine, operations as non-overlapping units *)

IdleCall == [op |-> "idle", username |-> "", arg |-> "", pc |-> "idle",
             err |-> "", id |-> 0, request |-> null, matched |-> FALSE]

NoCall == [op |-> "none", username |-> "", arg |-> "", session |-> {},
           err |-> "", was |-> "none", follows |-> "none", moduleCalls |-> <<>>,
           ret |-> <<>>]

Init ==
    /\ requests = <<>>
    /\ nextId = 1
    /\ last = NoCall
    /\ submitted = {}
    /\ calls = [p \in Procs |-> IdleCall]

StatusOf(coll, username) ==
    LET request == readOne(coll, [username |-> username])
    IN  IF request = null THEN "none" ELSE request.status

\* last' of a call: its arguments, err ("ok", the error thrown, or "error" for
\* the {error: ...} payload), was = the status of username's record before the
\* call, follows = the status of the record a directly preceding delete of the
\* same username removed, moduleCalls = the Verifying operations it invoked,
\* ret = the text it returned (reject's msg, the status route's status)
Log(op, username, arg, session, err, moduleCalls, ret) ==
    [op |-> op, username |-> username, arg |-> arg, session |-> session,
     err |-> err, was |-> StatusOf(requests, username),
     follows |-> IF last.op = "delete" /\ last.username = username
                 THEN last.was ELSE "none",
     moduleCalls |-> moduleCalls, ret |-> ret]

CreateRequest(username, credentials) ==
    LET r == createVerificationRequest(requests, nextId, username, credentials)
    IN  /\ nextId <= MaxId
        /\ requests' = r.coll
        /\ nextId' = IF r.err = "ok" THEN nextId + 1 ELSE nextId
        /\ last' = Log("create", username, credentials, {}, r.err,
                       <<"createVerificationRequest">>, <<>>)
        /\ submitted' = IF r.err = "ok" THEN submitted \cup {username} ELSE submitted
        /\ UNCHANGED calls

GetRequest(username) ==
    LET r == getRequestByUser(requests, username)
    IN  /\ last' = Log("get", username, "", {}, r.err, <<"getRequestByUser">>, <<>>)
        /\ UNCHANGED <<requests, nextId, submitted, calls>>

Approve(username) ==
    LET r == approveRequest(requests, username)
    IN  /\ requests' = r.coll
        /\ last' = Log("approve", username, "", {}, r.err, <<"approveRequest">>, <<>>)
        /\ UNCHANGED <<nextId, submitted, calls>>

Reject(username, reason) ==
    LET r == rejectRequest(requests, username, reason)
    IN  /\ requests' = r.coll
        /\ last' = Log("reject", username, reason, {}, r.err, <<"rejectRequest">>, r.msg)
        /\ UNCHANGED <<nextId, submitted, calls>>

Delete(username) ==
    LET r == deleteRequest(requests, username)
    IN  /\ requests' = r.coll
        /\ last' = Log("delete", username, "", {}, r.err, <<"deleteRequest">>, <<>>)
        /\ submitted' = submitted \ {username}
        /\ UNCHANGED <<nextId, calls>>

ApproveRoute(session, requester) ==
    LET r == approveVerificationRequest(requests, session, requester)
    IN  /\ requests' = r.coll
        /\ last' = Log("approveRoute", requester, "", session, r.err, r.moduleCalls, <<>>)
        /\ UNCHANGED <<nextId, submitted, calls>>

RejectRoute(session, requester) ==
    LET r == rejectVerificationRequest(requests, session, requester)
    IN  /\ requests' = r.coll
        /\ last' = Log("rejectRoute", requester, "", session, r.err, r.moduleCalls, <<>>)
        /\ UNCHANGED <<nextId, submitted, calls>>

CallerName(session) ==
    IF isLoggedIn(session) THEN idsToUsernames(<<getUser(session)>>)[1] ELSE ""

SubmitRoute(session, credentials) ==
    LET r == submitVerificationRequest(requests, nextId, session, credentials)
    IN  /\ nextId <= MaxId
        /\ requests' = r.coll
        /\ nextId' = IF r.err = "ok" THEN nextId + 1 ELSE nextId
        /\ last' = Log("submitRoute", CallerName(session), credentials, session,
                       r.err, r.moduleCalls, <<>>)
        /\ submitted' = IF r.err = "ok" THEN submitted \cup {CallerName(session)}
                        ELSE submitted
        /\ UNCHANGED calls

StatusRoute(session, username) ==
    LET r == getVerificationStatus(requests, session, username)
    IN  /\ last' = Log("statusRoute", username, "", session, r.err, r.moduleCalls,
                       IF r.err = "ok" THEN <<r.status>> ELSE <<>>)
        /\ UNCHANGED <<requests, nextId, submitted, calls>>

ViewRoute(session) ==
    LET r == viewRequests(requests, session)
    IN  /\ last' = Log("viewRoute", CallerName(session), "", session, r.err,
                       r.moduleCalls, <<>>)
        /\ UNCHANGED <<requests, nextId, submitted, calls>>

Next ==
    \/ \E u \in UsernameArgs, c \in CredentialArgs : CreateRequest(u, c)
    \/ \E u \in UsernameArgs : GetRequest(u)
    \/ \E u \in UsernameArgs : Approve(u)
    \/ \E u \in UsernameArgs, reason \in ReasonArgs : Reject(u, reason)
    \/ \E u \in UsernameArgs : Delete(u)
    \/ \E s \in Sessions, u \in UsernameArgs : ApproveRoute(s, u)
    \/ \E s \in Sessions, u \in UsernameArgs : RejectRoute(s, u)
    \/ \E s \in Sessions, c \in CredentialArgs : SubmitRoute(s, c)
    \/ \E s \in Sessions, u \in UsernameArgs : StatusRoute(s, u)
    \/ \E s \in Sessions : ViewRoute(s)

Spec == Init /\ [][Next]_vars

----------------------------------------------------------------------------
(* State machine, operations as async functions: one step per awaited      *)
(* store call.  calls[p] is the invocation process p is running: pc names  *)
(* the store call it is about to issue, id the _id createOne returned,     *)
(* request the record it returns, matched whether its update hit a record. *)

Invoke(p, op, username, arg) ==
    /\ calls[p].pc = "idle"
    /\ op = "create" => nextId <= MaxId
    /\ calls' = [calls EXCEPT ![p] =
                    [IdleCall EXCEPT !.op = op, !.username = username, !.arg = arg,
                        !.pc = CASE op = "create" -> "assertValidRequest"
                                 [] op = "delete" -> "deleteOne"
                                 [] OTHER -> "readOne"]]
    /\ UNCHANGED <<requests, nextId, last, submitted>>

\* verifying.ts 27: await this.assertValidRequest(username, credentials)
CreateAssert(p) ==
    LET c == calls[p]
        err == assertValidRequest(requests, c.username, c.arg)
    IN  /\ c.op = "create" /\ c.pc = "assertValidRequest"
        /\ calls' = [calls EXCEPT ![p].pc = IF err = "ok" THEN "createOne" ELSE "done",
                                  ![p].err = err]
        /\ UNCHANGED <<requests, nextId, last, submitted>>

\* verifying.ts 28: const _id = await createOne({ username, credentials, status })
CreateInsert(p) ==
    LET c == calls[p]
    IN  /\ c.op = "create" /\ c.pc = "createOne"
        /\ requests' = createOne(requests, nextId,
                                 [username |-> c.username, credentials |-> c.arg,
                                  status |-> "pending"])
        /\ nextId' = nextId + 1
        /\ calls' = [calls EXCEPT ![p].pc = "readBack", ![p].id = nextId]
        /\ UNCHANGED <<last, submitted>>

\* verifying.ts 29: request: await readOne({ username })
CreateReadBack(p) ==
    LET c == calls[p]
    IN  /\ c.op = "create" /\ c.pc = "readBack"
        /\ calls' = [calls EXCEPT ![p].pc = "done", ![p].err = "ok",
                        ![p].request = readOne(requests, [username |-> c.username])]
        /\ UNCHANGED <<requests, nextId, last, submitted>>

\* verifying.ts 41-44 / 50-53 / 33-37: readOne({ username }), NotFoundError if absent
ReadStep(p) ==
    LET c == calls[p]
        request == readOne(requests, [username |-> c.username])
    IN  /\ c.op \in {"approve", "reject", "get"} /\ c.pc = "readOne"
        /\ calls' = [calls EXCEPT
                        ![p].pc = IF request = null \/ c.op = "get"
                                  THEN "done" ELSE "partialUpdateOne",
                        ![p].err = IF request = null THEN "NotFoundError"
                                   ELSE IF c.op = "get" THEN "ok" ELSE "",
                        ![p].request = IF c.op = "get" THEN request ELSE null]
        /\ UNCHANGED <<requests, nextId, last, submitted>>

\* verifying.ts 45-46 / 54-55: partialUpdateOne({ username }, { status })
UpdateStep(p) ==
    LET c == calls[p]
        filter == [username |-> c.username]
    IN  /\ c.op \in {"approve", "reject"} /\ c.pc = "partialUpdateOne"
        /\ requests' = partialUpdateOne(requests, filter,
                            IF c.op = "approve" THEN "approved" ELSE "rejected")
        /\ calls' = [calls EXCEPT ![p].pc = "done", ![p].err = "ok",
                        ![p].matched = (FirstMatch(requests, filter) # 0)]
        /\ UNCHANGED <<nextId, last, submitted>>

\* verifying.ts 59-60: deleteOne({ username })
DeleteStep(p) ==
    LET c == calls[p]
    IN  /\ c.op = "delete" /\ c.pc = "deleteOne"
        /\ requests' = deleteOne(requests, [username |-> c.username])
        /\ calls' = [calls EXCEPT ![p].pc = "done", ![p].err = "ok"]
        /\ UNCHANGED <<nextId, last, submitted>>

\* SpecAsync starts from a collection earlier, completed operations left
SettledCollections ==
    {<<>>} \cup
    {<<[_id |-> 1, username |-> u, credentials |-> "doc123", status |-> st]>> :
        u \in Usernames, st \in Statuses}

InitAsync ==
    /\ requests \in SettledCollections
    /\ nextId = Len(requests) + 1
    /\ last = NoCall
    /\ submitted = {requests[i].username : i \in 1..Len(requests)}
    /\ calls = [p \in Procs |-> IdleCall]

NextAsync ==
    \/ \E p \in Procs, u \in UsernameArgs, c \in AsyncCredentialArgs : Invoke(p, "create", u, c)
    \/ \E p \in Procs, u \in Usernames : Invoke(p, "approve", u, "")
    \/ \E p \in Procs, u \in Usernames, reason \in ReasonArgs : Invoke(p, "reject", u, reason)
    \/ \E p \in Procs, u \in Usernames : Invoke(p, "delete", u, "")
    \/ \E p \in Procs, u \in Usernames : Invoke(p, "get", u, "")
    \/ \E p \in Procs : CreateAssert(p)
    \/ \E p \in Procs : CreateInsert(p)
    \/ \E p \in Procs : CreateReadBack(p)
    \/ \E p \in Procs : ReadStep(p)
    \/ \E p \in Procs : UpdateStep(p)
    \/ \E p \in Procs : DeleteStep(p)

SpecAsync == InitAsync /\ [][NextAsync]_vars

----------------------------------------------------------------------------
(* Properties *)

PendingOf(coll, username) ==
    {i \in 1..Len(coll) : coll[i].username = username /\ coll[i].status = "pending"}

NotAdmin(session) == \A u \in session : ~isAdmin(u)

IsGateRoute(op) == op \in {"approveRoute", "rejectRoute"}

Without(coll, id) == SelectSeq(coll, LAMBDA d : d._id # id)

\* C1: with every operation run as one non-overlapping unit, in every
\* reachable state each subject has at most one record with status pending.
C1_OnePendingPerSubject ==
    \A u \in UsernameArgs : Cardinality(PendingOf(requests, u)) <= 1

C1_Witness ==
    /\ last.op = "create" /\ last.err = "NotAllowedError" /\ last.was = "pending"
    /\ Cardinality(PendingOf(requests, last.username)) = 1

\* C2: two interleaved createRequest calls for the same subject never both
\* return success with two pending records of that subject in the collection.
C2_NoDoubleCreate ==
    ~ \E p, q \in Procs :
        /\ p # q
        /\ calls[p].op = "create" /\ calls[q].op = "create"
        /\ calls[p].username = calls[q].username
        /\ calls[p].pc = "done" /\ calls[q].pc = "done"
        /\ calls[p].err = "ok" /\ calls[q].err = "ok"
        /\ Cardinality(PendingOf(requests, calls[p].username)) >= 2

\* C3: every step that changes the status of a record (same _id before and
\* after) takes it from pending to approved or from pending to rejected.
C3_OnlyFromPending ==
    [][\A i \in 1..Len(requests), j \in 1..Len(requests') :
          (requests[i]._id = requests'[j]._id
              /\ requests[i].status # requests'[j].status)
          => /\ requests[i].status = "pending"
             /\ requests'[j].status \in {"approved", "rejected"}]_vars

\* C4: an Approve or Reject action whose caller is not an administrator, or
\* has no valid session, leaves the record collection as it was.
C4_RefusedGateNoSideEffect ==
    [][(IsGateRoute(last'.op) /\ NotAdmin(last'.session))
          => requests' = requests]_vars

C4_Witness ==
    /\ last.op = "approveRoute" /\ last.session = {2} /\ last.err = "error"
    /\ last.was = "pending" /\ StatusOf(requests, last.username) = "pending"

C6_CreateSucceedsWithoutPending ==
    (last.op = "create" /\ last.username # "" /\ last.arg # ""
        /\ last.was # "pending")
        => /\ last.err = "ok"
           /\ getRequestByUser(requests, last.username).request.status = "pending"

\* C7: a createRequest for a subject with an earlier successful createRequest
\* and no delete since fails with NotAllowedError and leaves the collection
\* unchanged.
C7_SecondCreateConflicts ==
    [][(last'.op = "create" /\ last'.username # "" /\ last'.arg # ""
          /\ last'.username \in submitted)
          => /\ last'.err = "NotAllowedError"
             /\ requests' = requests]_vars

C7_Witness ==
    /\ last.op = "create" /\ last.err = "NotAllowedError"
    /\ last.username \in submitted /\ last.was = "approved"
    /\ Len(requests) = 1

\* C8: approve (reject) of a subject with a record, whatever its status,
\* succeeds and the subject's record then reads approved (rejected); for a
\* subject with no record both fail with NotFoundError and change nothing.
C8_ApproveRejectThenGet ==
    [][/\ (last'.op = "approve" /\ StatusOf(requests, last'.username) # "none")
            => /\ last'.err = "ok"
               /\ getRequestByUser(requests', last'.username).request.status = "approved"
       /\ (last'.op = "reject" /\ StatusOf(requests, last'.username) # "none")
            => /\ last'.err = "ok"
               /\ getRequestByUser(requests', last'.username).request.status = "rejected"
       /\ (last'.op \in {"approve", "reject"}
              /\ StatusOf(requests, last'.username) = "none")
            => /\ last'.err = "NotFoundError"
               /\ requests' = requests]_vars

C8_Witness ==
    /\ last.op = "approve" /\ last.err = "ok" /\ last.was = "rejected"
    /\ StatusOf(requests, last.username) = "approved"

\* C9: delete never fails: for a key without a record it returns success and
\* leaves the collection unchanged, for a key with a record it removes
\* exactly that record.
C9_DeleteNeverFails ==
    [][last'.op = "delete"
          => /\ last'.err = "ok"
             /\ readOne(requests, [username |-> last'.username]) = null
                    => requests' = requests
             /\ readOne(requests, [username |-> last'.username]) # null
                    => requests' = Without(requests,
                            readOne(requests, [username |-> last'.username])._id)]_vars

C9_Witness ==
    /\ last.op = "delete" /\ last.err = "ok" /\ last.was = "none"
    /\ last.username \in Usernames /\ Len(requests) > 0

\* C10: directly after the delete of a subject's record, in any status, a
\* createRequest for that subject with non-empty credentials succeeds and
\* adds a new pending record of the subject.
C10_CreateAfterDelete ==
    [][(last.op = "delete" /\ last.was # "none"
          /\ last'.op = "create" /\ last'.username = last.username
          /\ last'.arg # "")
          => /\ last'.err = "ok"
             /\ Len(requests') = Len(requests) + 1
             /\ requests'[Len(requests')] =
                    [_id |-> nextId, username |-> last'.username,
                     credentials |-> last'.arg, status |-> "pending"]
             /\ \A i \in 1..Len(requests) : requests[i]._id # nextId]_vars

C10_Witness ==
    /\ last.op = "create" /\ last.err = "ok" /\ last.follows = "approved"
    /\ StatusOf(requests, last.username) = "pending"

IsRoute(op) ==
    op \in {"submitRoute", "statusRoute", "viewRoute", "approveRoute", "rejectRoute"}

IsModuleOp(op) == op \in {"create", "get", "approve", "reject", "delete"}

OthersOf(coll, username) == SelectSeq(coll, LAMBDA d : d.username # username)

ReasonPart(msg) == SubSeq(msg, 2, Len(msg))

\* C11: the View-status action returns the status of the subject's record,
\* and for a subject without a record the non-error result
\* {status: "No verification request found."}, never a thrown NotFoundError.
C11_StatusOfAbsentIsSentinel ==
    last.op = "statusRoute"
        => /\ last.err = "ok"
           /\ last.was = "none" => last.ret = <<"No verification request found.">>
           /\ last.was # "none" => last.ret = <<last.was>>

\* C12: createRequest with an empty subject or empty credentials fails with
\* BadValuesError in every state, also when the subject has a record, and
\* creates no record; the Submit action with empty credentials creates no
\* record either.
C12_EmptyInputRejected ==
    [][/\ (last'.op = "create" /\ (last'.username = "" \/ last'.arg = ""))
            => /\ last'.err = "BadValuesError"
               /\ requests' = requests
       /\ (last'.op = "submitRoute" /\ last'.arg = "")
            => /\ last'.err # "ok"
               /\ requests' = requests]_vars

C12_Witness ==
    /\ last.op = "create" /\ last.arg = "" /\ last.username \in Usernames
    /\ last.was = "pending" /\ last.err = "BadValuesError"

\* C13: a createRequest that returns success returns the record its own
\* insert created: the _id createOne gave this call, this call's credentials
\* and status pending, also when another createRequest interleaves with it
\* (stated for the executions in which only createRequest calls run).
C13_ReturnsOwnRecord ==
    \A p \in Procs :
        (calls[p].op = "create" /\ calls[p].pc = "done" /\ calls[p].err = "ok"
            /\ \A q \in Procs : calls[q].op \in {"idle", "create"})
            => /\ calls[p].request._id = calls[p].id
               /\ calls[p].request.credentials = calls[p].arg
               /\ calls[p].request.status = "pending"

\* C14: a successful reject returns a message whose reason part is
\* "Reason: " followed by the reason verbatim when the reason is non-empty
\* and is empty when the reason is absent or empty, whatever the record's
\* prior status.
C14_RejectMessage ==
    (last.op = "reject" /\ last.err = "ok")
        => /\ Len(last.ret) >= 1
           /\ last.ret[1] = "Verification request rejected. "
           /\ last.arg # "" => ReasonPart(last.ret) = <<"Reason: ", last.arg>>
           /\ last.arg = "" => ReasonPart(last.ret) = <<>>

C14_Witness ==
    /\ last.op = "reject" /\ last.err = "ok" /\ last.arg = "bad doc"
    /\ last.was = "approved" /\ last.ret[Len(last.ret)] = "bad doc"

\* C15: a record that enters the collection has status pending, and no step
\* gives status pending to a record that was approved or rejected.
C15_NeverBackToPending ==
    [][\A j \in 1..Len(requests') :
          /\ (\A i \in 1..Len(requests) : requests[i]._id # requests'[j]._id)
                => requests'[j].status = "pending"
          /\ \A i \in 1..Len(requests) :
                (requests[i]._id = requests'[j]._id
                    /\ requests'[j].status = "pending")
                => requests[i].status = "pending"]_vars

C15_Witness ==
    /\ last.op = "reject" /\ last.err = "ok" /\ last.was = "approved"
    /\ StatusOf(requests, last.username) = "rejected"
    /\ \E i \in 1..Len(requests) :
          requests[i].username # last.username /\ requests[i].status = "pending"

\* C16: createRequest for a subject that has a record in any status
\* (pending, approved or rejected) fails with NotAllowedError and changes
\* nothing, so resubmission stays blocked until the record is deleted.
C16_AnyRecordBlocks ==
    [][(last'.op = "create" /\ last'.username # "" /\ last'.arg # ""
          /\ StatusOf(requests, last'.username) \in Statuses)
          => /\ last'.err = "NotAllowedError"
             /\ requests' = requests]_vars

C16_Witness ==
    /\ last.op = "create" /\ last.err = "NotAllowedError" /\ last.was = "rejected"
    /\ StatusOf(requests, last.username) = "rejected"

\* C17: every routing-layer verification action makes at most one
\* Verification Module call per invocation.
C17_AtMostOneModuleCall ==
    IsRoute(last.op) => Len(last.moduleCalls) <= 1

\* C18: a module operation for subject s leaves the records of every other
\* subject unchanged, and approve / reject keep every record's _id, username
\* and credentials and change the status of at most one record.
C18_Frame ==
    [][/\ IsModuleOp(last'.op)
            => OthersOf(requests', last'.username) = OthersOf(requests, last'.username)
       /\ last'.op \in {"approve", "reject"}
            => /\ Len(requests') = Len(requests)
               /\ \A i \in 1..Len(requests) :
                     /\ requests'[i]._id = requests[i]._id
                     /\ requests'[i].username = requests[i].username
                     /\ requests'[i].credentials = requests[i].credentials
               /\ Cardinality({i \in 1..Len(requests) :
                     requests'[i].status # requests[i].status}) <= 1]_vars

C18_Witness ==
    /\ last.op = "approve" /\ last.err = "ok" /\ last.was = "pending"
    /\ Len(requests) = 2
    /\ requests[1].username # last.username /\ requests[1].status = "pending"
    /\ requests[2].status = "approved"

\* C19: an approve that returns success has itself set a record of the
\* subject to approved: its update matched a record, also when a delete or
\* reject for the subject interleaves.
C19_ApproveSuccessMatched ==
    \A p \in Procs :
        (calls[p].op = "approve" /\ calls[p].pc = "done" /\ calls[p].err = "ok")
            => calls[p].matched

====
